---------------------------- MODULE Spec2Model ----------------------------
(***************************************************************************)
(* A model of clixxi: the Context (argument binder and typed accessor),    *)
(* the warning LogStream it writes to, Command and App.                    *)
(*                                                                         *)
(* A std::string is a sequence of one-character strings, so that substr,   *)
(* the "--" test and the number parsers work on characters as the code     *)
(* does.  A std::map is a function whose DOMAIN is the set of keys.        *)
(***************************************************************************)
EXTENDS Integers, Sequences, FiniteSets, TLC

VARIABLES
    pc,                   \* where the host program is
    commands_,            \* App::commands_
    argv,                 \* the argument vector given to App::run
    ctx_args,             \* the vector the Context was constructed from
    ctx_options_,         \* Context::options_
    res,                  \* what the last accessor call gave its caller
    cerr,                 \* what was written to std::cerr, in order
    prefix_added,         \* Logger::warning.prefix_added
    cout,                 \* what was written to std::cout, in order
    executed,             \* the calls of Command::execute, in order
    calls,                \* the handler invocations, in order
    thrown,               \* the exception that left App::run, or NoException
    nsetup,               \* registration calls made so far
    naccess,              \* accessor calls made so far
    setup,                \* the registration calls a recording host made, in order
    mtx,                  \* the mutex of Logger::get: the thread holding it, or Unlocked
    logger,               \* the shared_ptr of Logger::instance: an object, or NoLogger
    ncreated,             \* the default loggers create_default has made
    tpc,                  \* where each thread is in Logger::get
    ngets,                \* the calls of Logger::get each thread has completed
    returned              \* the objects the calls of Logger::get returned

vars == <<pc, commands_, argv, ctx_args, ctx_options_, res, cerr,
          prefix_added, cout, executed, calls, thrown, nsetup, naccess, setup,
          mtx, logger, ncreated, tpc, ngets, returned>>

\* the state of the App, its Commands, the Context and the warning stream
appVars == <<pc, commands_, argv, ctx_args, ctx_options_, res, cerr,
             prefix_added, cout, executed, calls, thrown, nsetup, naccess, setup>>

\* the state of Logger::get
loggerVars == <<mtx, logger, ncreated, tpc, ngets, returned>>

---------------------------------------------------------------------------
(* Bounds of the model.                                                    *)

MaxArgs == 3
MaxAccess == 2
MaxSetup == 4
MaxArgv == 3
NThreads == 3
MaxGets == 2

---------------------------------------------------------------------------
(* Strings.                                                                *)

Min(a, b) == IF a < b THEN a ELSE b

\* std::string::substr(pos, n), for pos <= size()
substr(s, pos, n) == SubSeq(s, pos + 1, Min(Len(s), pos + n))

\* std::string::substr(pos), for pos <= size()
substrFrom(s, pos) == SubSeq(s, pos + 1, Len(s))

DashDash == <<"-", "-">>
sTrue == <<"t", "r", "u", "e">>
sFalse == <<"f", "a", "l", "s", "e">>
sOne == <<"1">>
sZero == <<"0">>
sOn == <<"o", "n">>
sOff == <<"o", "f", "f">>
sYes == <<"y", "e", "s">>
sNo == <<"n", "o">>
sHelp == <<"h", "e", "l", "p">>
sVersion == <<"v", "e", "r", "s", "i", "o", "n">>
sSum == <<"s", "u", "m">>
sA == <<"a">>
sB == <<"b">>
sEmpty == <<>>

Digits == {"0", "1", "2", "3", "4", "5", "6", "7", "8", "9"}

\* the characters std::isspace accepts in the "C" locale (\v has no TLA+ escape)
Whitespace == {" ", "\t", "\n", "\f", "\r"}

DigitVal(c) ==
    CASE c = "0" -> 0 [] c = "1" -> 1 [] c = "2" -> 2 [] c = "3" -> 3
      [] c = "4" -> 4 [] c = "5" -> 5 [] c = "6" -> 6 [] c = "7" -> 7
      [] c = "8" -> 8 [] c = "9" -> 9

---------------------------------------------------------------------------
(* std::map.                                                               *)

EmptyMap == [k \in {} |-> <<>>]

emplaceMut(m, k, v) == [x \in DOMAIN m \cup {k} |-> IF x = k THEN v ELSE m[x]]

\* std::map::emplace: inserts only when the key is not there yet
emplace(m, k, v) ==
    IF k \in DOMAIN m THEN m
    ELSE [x \in DOMAIN m \cup {k} |-> IF x = k THEN v ELSE m[x]]

---------------------------------------------------------------------------
(* Context::Context: the argument binder.                                  *)

IsMarkerMut(arg) == Len(arg) > 2 /\ substr(arg, 0, 2) = DashDash

\* the negation of the test arg.substr(0, 2) != "--"
IsMarker(arg) == substr(arg, 0, 2) = DashDash

NextIsValueMut(args, i) == i + 1 < Len(args)

\* i + 1 < args.size() && args.at(i + 1).substr(0, 2) != "--"   (i from 0)
NextIsValue(args, i) == i + 1 < Len(args) /\ ~IsMarker(args[i + 2])

RECURSIVE ContextLoop(_, _, _)
\* the for loop of the constructor from cursor i (from 0) with the store so far
ContextLoop(args, i, opts) ==
    IF ~(i < Len(args)) THEN opts
    ELSE LET arg == args[i + 1] IN
         IF ~IsMarker(arg) THEN ContextLoop(args, i + 1, opts)
         ELSE LET key == substrFrom(arg, 2)
                  value == IF NextIsValue(args, i) THEN args[i + 2] ELSE sTrue
                  j == IF NextIsValue(args, i) THEN i + 1 ELSE i
              IN ContextLoop(args, j + 1, emplace(opts, key, value))

Context(args) == ContextLoop(args, 0, EmptyMap)

---------------------------------------------------------------------------
(* std::stoi(value, &pos): strtol in base 10, then the int range check.    *)

INT_MAX == 2147483647
INT_MIN == -INT_MAX - 1

\* the magnitude at which one more digit may leave the int range
CutOff == INT_MAX \div 10

RECURSIVE SkipSpace(_, _)
\* the position (from 0) of the first character at or after p that is no space
SkipSpace(s, p) ==
    IF p < Len(s) /\ s[p + 1] \in Whitespace THEN SkipSpace(s, p + 1) ELSE p

RECURSIVE DigitsEnd(_, _)
\* the position (from 0) just after the run of digits that starts at p
DigitsEnd(s, p) ==
    IF p < Len(s) /\ s[p + 1] \in Digits THEN DigitsEnd(s, p + 1) ELSE p

SignEnd(s, p) == IF p < Len(s) /\ s[p + 1] \in {"+", "-"} THEN p + 1 ELSE p

RECURSIVE NegAccum(_, _, _, _)
\* minus the number written by the digits s[p+1 .. e], accumulated downwards so
\* that INT_MIN is reached without overflow; ovf when it is below INT_MIN
NegAccum(s, p, e, acc) ==
    IF p >= e THEN [ovf |-> FALSE, acc |-> acc]
    ELSE LET d == DigitVal(s[p + 1]) IN
         IF acc < -CutOff \/ (acc = -CutOff /\ d > 8)
         THEN [ovf |-> TRUE, acc |-> 0]
         ELSE NegAccum(s, p + 1, e, acc * 10 - d)

\* [tag |-> "ok", val, pos], or the exception std::stoi throws
stoi(s) ==
    LET p0 == SkipSpace(s, 0)
        p1 == SignEnd(s, p0)
        neg == p1 > p0 /\ s[p0 + 1] = "-"
        p2 == DigitsEnd(s, p1)
        n == NegAccum(s, p1, p2, 0)
    IN  IF p2 = p1 THEN [tag |-> "throw", exc |-> "invalid_argument"]
        ELSE IF n.ovf \/ (~neg /\ n.acc = INT_MIN)
             THEN [tag |-> "throw", exc |-> "out_of_range"]
             ELSE [tag |-> "ok", val |-> IF neg THEN n.acc ELSE -n.acc, pos |-> p2]

---------------------------------------------------------------------------
(* std::stof(value, &pos): strtof on the decimal forms                     *)
(* [space]* [sign] digits [. digits] [(e|E) [sign] digits].  The value is  *)
(* kept exact, as sign, mantissa and power of ten (the rounding to binary32*)
(* is not modelled); the hexadecimal, "inf" and "nan" forms and magnitudes *)
(* below the normal range are outside the inputs of this model.            *)

\* the least decimal that rounds above FLT_MAX: 2^128 - 2^103 (half an ulp
\* above FLT_MAX, where round-to-even goes up), as its digits
FltOverflowDigits ==
    <<"3", "4", "0", "2", "8", "2", "3", "5", "6", "7">>
    \o <<"7", "9", "7", "3", "3", "6", "6", "1", "6", "3">>
    \o <<"7", "5", "3", "9", "3", "9", "5", "4", "5", "8">>
    \o <<"1", "4", "2", "5", "6", "8", "4", "4", "8">>

\* ceiling on an exponent's value once it is far beyond every float
ExpCap == 100000

RECURSIVE ExpNum(_, _, _, _)
\* the number written by the digits s[p+1 .. e], after acc, held at ExpCap
ExpNum(s, p, e, acc) ==
    IF p >= e \/ acc >= ExpCap THEN acc
    ELSE ExpNum(s, p + 1, e, acc * 10 + DigitVal(s[p + 1]))

RECURSIVE StripLeadingZeros(_)
StripLeadingZeros(ds) ==
    IF ds # <<>> /\ ds[1] = "0" THEN StripLeadingZeros(Tail(ds)) ELSE ds

RECURSIVE StripTrailingZeros(_, _)
\* ds * 10^x with the trailing zeros of ds moved into x
StripTrailingZeros(ds, x) ==
    IF ds # <<>> /\ ds[Len(ds)] = "0"
    THEN StripTrailingZeros(SubSeq(ds, 1, Len(ds) - 1), x + 1)
    ELSE [digits |-> ds, exp10 |-> IF ds = <<>> THEN 0 ELSE x]

RECURSIVE DigitsGeq(_, _, _)
\* whether 0.ds >= 0.ts, comparing from digit i on
DigitsGeq(ds, ts, i) ==
    IF i > Len(ds) /\ i > Len(ts) THEN TRUE
    ELSE LET d == IF i <= Len(ds) THEN DigitVal(ds[i]) ELSE 0
             t == IF i <= Len(ts) THEN DigitVal(ts[i]) ELSE 0
         IN  IF d # t THEN d > t ELSE DigitsGeq(ds, ts, i + 1)

\* whether ds * 10^x (ds without leading zeros) rounds above the largest float
FloatOverflows(ds, x) ==
    /\ ds # <<>>
    /\ \/ Len(ds) + x > Len(FltOverflowDigits)
       \/ /\ Len(ds) + x = Len(FltOverflowDigits)
          /\ DigitsGeq(ds, FltOverflowDigits, 1)

\* the position just after the fraction "." digits* that may start at p2
FracEnd(s, p2) ==
    IF p2 < Len(s) /\ s[p2 + 1] = "." THEN DigitsEnd(s, p2 + 1) ELSE p2

\* the position just after the exponent (e|E) [sign] digits+ that may start at
\* pm; an exponent without digits is not consumed
ExpEnd(s, pm) ==
    IF pm < Len(s) /\ s[pm + 1] \in {"e", "E"}
    THEN LET q1 == SignEnd(s, pm + 1) IN
         IF DigitsEnd(s, q1) > q1 THEN DigitsEnd(s, q1) ELSE pm
    ELSE pm

\* the value of the exponent s[pm+1 .. pe]
ExpValue(s, pm, pe) ==
    IF pe = pm THEN 0
    ELSE IF s[pm + 2] = "-" THEN -ExpNum(s, pm + 2, pe, 0)
    ELSE ExpNum(s, SignEnd(s, pm + 1), pe, 0)

\* the float of sign neg, digits ds and power of ten x, or out_of_range
FloatResult(neg, v, pos) ==
    IF FloatOverflows(v.digits, v.exp10)
    THEN [tag |-> "throw", exc |-> "out_of_range"]
    ELSE [tag |-> "ok", pos |-> pos,
          val |-> [neg |-> neg /\ v.digits # <<>>, digits |-> v.digits,
                   exp10 |-> v.exp10]]

\* the parse once the mantissa s[p1+1 .. p3] (integer part up to p2) is known
stofMantissa(s, p1, p2, p3) ==
    LET nfrac == IF p3 > p2 THEN p3 - p2 - 1 ELSE 0
        pe == ExpEnd(s, p3)
    IN  IF (p2 - p1) + nfrac = 0
        THEN [tag |-> "throw", exc |-> "invalid_argument"]
        ELSE FloatResult(p1 > 0 /\ s[p1] = "-",
                 StripTrailingZeros(
                     StripLeadingZeros(SubSeq(s, p1 + 1, p2) \o SubSeq(s, p2 + 2, p3)),
                     ExpValue(s, p3, pe) - nfrac),
                 pe)

stofSigned(s, p1) == stofMantissa(s, p1, DigitsEnd(s, p1), FracEnd(s, DigitsEnd(s, p1)))

\* [tag |-> "ok", val, pos], or the exception std::stof throws
stof(s) == stofSigned(s, SignEnd(s, SkipSpace(s, 0)))

---------------------------------------------------------------------------
(* Context::get_option<T>(name), get_option<T>(name, default), has_option. *)

Types == {"bool", "int", "float", "string"}

Return(T, v) == [tag |-> "return", ty |-> T, val |-> v]
Throw(e, name, expected) ==
    [tag |-> "throw", exc |-> e, name |-> name, expected |-> expected]

Truthy == {sTrue, sOne, sOn, sYes}
Falsy == {sFalse, sZero, sOff, sNo}

AbsentMut(T, name) == Throw("MissingRequiredOption", name, "")

\* the branch it == options_.end()
Absent(T, name) ==
    IF T = "bool" THEN Return("bool", FALSE)
    ELSE Throw("MissingRequiredOption", name, "")

CoerceBoolMut(name, value) ==
    IF value \in Truthy THEN Return("bool", TRUE) ELSE Return("bool", FALSE)

\* the branch std::is_same_v<T, bool>
CoerceBool(name, value) ==
    IF value \in Truthy THEN Return("bool", TRUE)
    ELSE IF value \in Falsy THEN Return("bool", FALSE)
    ELSE Throw("BadOptionType", name, "bool")

CheckedParseMut(T, name, value, r) ==
    IF r.tag = "throw" THEN Throw("BadOptionType", name, T)
    ELSE Return(T, r.val)

CheckedParseRangeMut(T, name, value, r) ==
    IF r.tag = "throw"
    THEN IF r.exc = "out_of_range" THEN Throw("out_of_range", name, T)
         ELSE Throw("BadOptionType", name, T)
    ELSE IF r.pos # Len(value) THEN Throw("BadOptionType", name, T)
    ELSE Return(T, r.val)

\* the try block of a numeric branch, given the parser's outcome r: catch (...)
\* turns every exception, the block's own BadOptionType included, into
\* BadOptionType
CheckedParse(T, name, value, r) ==
    IF r.tag = "throw" THEN Throw("BadOptionType", name, T)
    ELSE IF r.pos # Len(value) THEN Throw("BadOptionType", name, T)
    ELSE Return(T, r.val)

get_option(opts, T, name) ==
    IF name \notin DOMAIN opts THEN Absent(T, name)
    ELSE LET value == opts[name] IN
         CASE T = "string" -> Return("string", value)
           [] T = "bool" -> CoerceBool(name, value)
           [] T = "int" -> CheckedParse("int", name, value, stoi(value))
           [] T = "float" -> CheckedParse("float", name, value, stof(value))

has_option(opts, name) == name \in DOMAIN opts

\* Logger::LogStream: [out |-> what it has written to std::cerr,
\*                     added |-> prefix_added]
ensurePrefix(st) ==
    IF ~st.added
    THEN [out |-> Append(st.out, [w |-> "warning_prefix"]), added |-> TRUE]
    ELSE st

\* LogStream::operator<<, for a value and for a manipulator alike
LogWrite(st, piece) ==
    LET p == ensurePrefix(st) IN [out |-> Append(p.out, piece), added |-> p.added]

What(e) == [w |-> "what", exc |-> e.exc, name |-> e.name, expected |-> e.expected]
Endl == [w |-> "endl"]

get_option_defaultSilentMut(opts, T, name, default_value, st) ==
    LET r == get_option(opts, T, name) IN
    IF r.tag = "return" THEN [out |-> r, log |-> st]
    ELSE [out |-> Return(T, default_value), log |-> st]

get_option_defaultAbsentMut(opts, T, name, default_value, st) ==
    IF name \notin DOMAIN opts THEN [out |-> Return(T, default_value), log |-> st]
    ELSE get_option_defaultSilentMut(opts, T, name, default_value, st)

\* the defaulted accessor: [out |-> what the caller gets, log |-> the stream after]
get_option_default(opts, T, name, default_value, st) ==
    LET r == get_option(opts, T, name) IN
    IF r.tag = "return" THEN [out |-> r, log |-> st]
    ELSE IF r.exc = "MissingRequiredOption"
         THEN [out |-> Return(T, default_value), log |-> st]
         ELSE [out |-> Return(T, default_value),
               log |-> LogWrite(LogWrite(st, What(r)), Endl)]

---------------------------------------------------------------------------
(* Option, Command.                                                        *)

\* an empty std::function
NoHandler == 0

Option(name, desc) == [option_name_ |-> name, option_desc_ |-> desc]

Command(name, desc) ==
    [name_ |-> name, desc_ |-> desc, handler_ |-> NoHandler, options_ |-> EmptyMap]

\* Command::option
option(c, name, desc) ==
    [c EXCEPT !.options_ = emplace(@, name, Option(name, desc))]

runMut(c, handler) ==
    IF c.handler_ = NoHandler THEN [c EXCEPT !.handler_ = handler] ELSE c

\* Command::run
run(c, handler) == [c EXCEPT !.handler_ = handler]

\* Command::get_help: what the text is made of (its layout is not modelled)
get_help(c) ==
    [w |-> "command_help", name |-> c.name_, desc |-> c.desc_,
     options |-> [n \in DOMAIN c.options_ |-> c.options_[n].option_desc_]]

NoException == [tag |-> "none"]
CommandHasNotHandler(name) == [tag |-> "throw", exc |-> "CommandHasNotHandler", name |-> name]
CommandNotFound(name) == [tag |-> "throw", exc |-> "CommandNotFound", name |-> name]

\* one handler invocation: handler_(context)
Invocation(c, context) ==
    [handler |-> c.handler_, command |-> c.name_, context |-> context]

\* what a call does: what it writes to std::cout, the handlers it invokes,
\* the exception it ends with, and the calls of Command::execute in it
Outcome(out, invoked, exception) ==
    [cout |-> out, calls |-> invoked, thrown |-> exception, executed |-> <<>>]

executeMut(c, context) ==
    IF c.handler_ = NoHandler
    THEN Outcome(<<>>, <<>>, CommandHasNotHandler(c.name_))
    ELSE IF has_option(context, sHelp)
         THEN Outcome(<<get_help(c), Endl>>, <<>>, NoException)
         ELSE Outcome(<<>>, <<Invocation(c, context)>>, NoException)

executeBoolHelpMut(c, context) ==
    IF get_option(context, "bool", sHelp) = Return("bool", TRUE)
    THEN Outcome(<<get_help(c), Endl>>, <<>>, NoException)
    ELSE IF c.handler_ = NoHandler
         THEN Outcome(<<>>, <<>>, CommandHasNotHandler(c.name_))
         ELSE Outcome(<<>>, <<Invocation(c, context)>>, NoException)

executeUncheckedMut(c, context) ==
    IF has_option(context, sHelp)
    THEN Outcome(<<get_help(c), Endl>>, <<>>, NoException)
    ELSE Outcome(<<>>, <<Invocation(c, context)>>, NoException)

\* Command::execute on a Context whose store is context
execute(c, context) ==
    IF has_option(context, sHelp)
    THEN Outcome(<<get_help(c), Endl>>, <<>>, NoException)
    ELSE IF c.handler_ = NoHandler
         THEN Outcome(<<>>, <<>>, CommandHasNotHandler(c.name_))
         ELSE Outcome(<<>>, <<Invocation(c, context)>>, NoException)

---------------------------------------------------------------------------
(* App.                                                                    *)

\* the version_ the App was constructed with
Version == <<"1", ".", "0">>

parse_argsMut(av) == av

\* App::parse_args: argc is Len(av)
parse_args(av) == IF Len(av) <= 1 THEN <<>> ELSE SubSeq(av, 2, Len(av))

commandMut(cmds, name, desc) ==
    [k \in DOMAIN cmds \cup {name} |->
        IF k = name THEN Command(name, desc) ELSE cmds[k]]

\* App::command, on the registry
command(cmds, name, desc) == emplace(cmds, name, Command(name, desc))

CommandArgsMut(args) == SubSeq(args, 3, Len(args))

\* std::vector<std::string>(args.begin() + 1, args.end())
CommandArgs(args) == SubSeq(args, 2, Len(args))

\* it->second.execute(Context(...))
Execute(cmds, name, args) ==
    LET context == Context(args) IN
    [execute(cmds[name], context) EXCEPT
        !.executed = <<[command |-> name, context |-> context]>>]

DispatchMut(cmds, args) ==
    IF args = <<>> THEN Outcome(<<[w |-> "help"]>>, <<>>, NoException)
    ELSE IF args[1] \in DOMAIN cmds
         THEN Execute(cmds, args[1], CommandArgs(args))
         ELSE IF args[1] = sHelp THEN Outcome(<<[w |-> "help"]>>, <<>>, NoException)
         ELSE IF args[1] = sVersion
              THEN Outcome(<<[w |-> "version", text |-> Version]>>, <<>>, NoException)
              ELSE Outcome(<<>>, <<>>, CommandNotFound(args[1]))

RECURSIVE SkipFlags(_)
SkipFlags(args) ==
    IF args # <<>> /\ IsMarker(args[1]) THEN SkipFlags(Tail(args)) ELSE args

DispatchSkipFlagsMut(cmds, args) ==
    IF SkipFlags(args) = <<>> \/ SkipFlags(args)[1] = sHelp
    THEN Outcome(<<[w |-> "help"]>>, <<>>, NoException)
    ELSE IF SkipFlags(args)[1] = sVersion
         THEN Outcome(<<[w |-> "version", text |-> Version]>>, <<>>, NoException)
         ELSE IF SkipFlags(args)[1] \notin DOMAIN cmds
              THEN Outcome(<<>>, <<>>, CommandNotFound(SkipFlags(args)[1]))
              ELSE Execute(cmds, SkipFlags(args)[1], CommandArgs(SkipFlags(args)))

\* App::run after parse_args
Dispatch(cmds, args) ==
    IF args = <<>> \/ args[1] = sHelp
    THEN Outcome(<<[w |-> "help"]>>, <<>>, NoException)
    ELSE IF args[1] = sVersion
         THEN Outcome(<<[w |-> "version", text |-> Version]>>, <<>>, NoException)
         ELSE IF args[1] \notin DOMAIN cmds
              THEN Outcome(<<>>, <<>>, CommandNotFound(args[1]))
              ELSE Execute(cmds, args[1], CommandArgs(args))

---------------------------------------------------------------------------
(* The inputs of the model.                                                *)

RECURSIVE SeqsUpTo(_, _)
\* the sequences over S of length at most n
SeqsUpTo(S, n) ==
    IF n = 0 THEN {<<>>}
    ELSE LET T == SeqsUpTo(S, n - 1) IN
         T \cup {Append(t, x) : t \in {u \in T : Len(u) = n - 1}, x \in S}

mA == DashDash \o sA
mB == DashDash \o sB
\* the tokens of the argument lists given to the Context constructor
CtxTokens == {mA, mB, DashDash, sOne}

\* the raw values whose coercion is read
RawValues ==
    {<<"t", "r", "u", "e">>,
     <<"1">>,
     <<"o", "n">>,
     <<"y", "e", "s">>,
     <<"f", "a", "l", "s", "e">>,
     <<"0">>,
     <<"o", "f", "f">>,
     <<"n", "o">>,
     <<"T", "r", "u", "e">>,
     <<>>,
     <<"2">>,
     <<"1", "2">>,
     <<"1", "2", "a", "b", "c">>,
     <<"a", "b", "c">>,
     <<" ", "1", "2">>,
     <<"1", "2", " ">>,
     <<"-", "5">>,
     <<"+", "7">>,
     <<"-">>,
     <<"2", "1", "4", "7", "4", "8", "3", "6", "4", "7">>,
     <<"2", "1", "4", "7", "4", "8", "3", "6", "4", "8">>,
     <<"-", "2", "1", "4", "7", "4", "8", "3", "6", "4", "8">>,
     <<"-", "2", "1", "4", "7", "4", "8", "3", "6", "4", "9">>,
     <<"9", "9", "9", "9", "9", "9", "9", "9", "9", "9", "9">>,
     <<"1", ".", "5">>,
     <<"1", ".", "5", "x">>,
     <<".">>,
     <<"1", "e", "2">>,
     <<"1", "e", "3", "9">>,
     <<"1", "e">>}

CtxArgLists ==
    SeqsUpTo(CtxTokens, MaxArgs) \cup {<<mA, v>> : v \in RawValues}

\* the option names read
Names == {sA, sB, sEmpty}

FloatHalf == [neg |-> FALSE, digits |-> <<"5">>, exp10 |-> -1]

\* the defaults handed to the defaulted accessor
Defaults(T) ==
    CASE T = "bool" -> {TRUE, FALSE}
      [] T = "int" -> {7}
      [] T = "float" -> {FloatHalf}
      [] T = "string" -> {<<"d">>}

mHelp == DashDash \o sHelp
sProg == <<"p">>
sD1 == <<"x">>
sD2 == <<"y">>

\* the names commands are registered under, their descriptions and handlers
CommandNames == {sHelp, sVersion, sSum}
CommandDescs == {sD1}
OptionNames == {sA, sB}
OptionDescs == {sD1, sD2}
Handlers == {1, 2}

\* the tokens that come first after the program's name in argv, and the
\* tokens that follow them
FirstTokens == {sHelp, sVersion, sSum, mHelp, sZero}
RestTokens == {mHelp, mA, sZero, sSum}

\* the inputs of the recording host: two command names and the argument
\* vectors it runs the App on
sSub == <<"s", "u", "b">>
SetupNames == {sSum, sSub}
SetupArgvs == {<<sProg, sSum>>, <<sProg, sSub, mA>>, <<sProg, sSum, mHelp>>}

\* argv: nothing at all, the program's name alone, "sum --help false", or up
\* to MaxArgv arguments
Argvs ==
    {<<>>, <<sProg>>, <<sProg, sSum, mHelp, sFalse>>}
    \cup {<<sProg, t>> \o a : t \in FirstTokens, a \in SeqsUpTo(RestTokens, MaxArgv - 1)}

---------------------------------------------------------------------------
(* The state machine.                                                      *)

NoRes == [op |-> "none"]

\* the threads that call Logger::get
Threads == 1..NThreads

\* std::mutex mtx, held by no thread
Unlocked == 0

\* an empty std::shared_ptr<ILogger>
NoLogger == 0

Init ==
    /\ pc = "start"
    /\ commands_ = EmptyMap
    /\ argv = <<>>
    /\ ctx_args = <<>>
    /\ ctx_options_ = EmptyMap
    /\ res = NoRes
    /\ cerr = <<>>
    /\ prefix_added = FALSE
    /\ cout = <<>>
    /\ executed = <<>>
    /\ calls = <<>>
    /\ thrown = NoException
    /\ nsetup = 0
    /\ naccess = 0
    /\ setup = <<>>
    /\ mtx = Unlocked
    /\ logger = NoLogger
    /\ ncreated = 0
    /\ tpc = [t \in Threads |-> "idle"]
    /\ ngets = [t \in Threads |-> 0]
    /\ returned = {}

\* Context ctx(args)
NewContext(args) ==
    /\ pc = "start"
    /\ pc' = "live"
    /\ ctx_args' = args
    /\ ctx_options_' = Context(args)
    /\ UNCHANGED <<commands_, argv, res, cerr, prefix_added, cout, executed,
                   calls, thrown, nsetup, naccess,
                   setup>>
    /\ UNCHANGED loggerVars

GetOptionMut(T, name) ==
    /\ pc = "live"
    /\ naccess < MaxAccess
    /\ naccess' = naccess + 1
    /\ res' = [op |-> "get_option", ty |-> T, name |-> name,
               out |-> get_option(ctx_options_, T, name)]
    /\ ctx_options_' = emplace(ctx_options_, name, <<>>)
    /\ UNCHANGED <<pc, commands_, argv, ctx_args, cerr, prefix_added, cout,
                   executed, calls, thrown, nsetup, setup>>
    /\ UNCHANGED loggerVars

\* ctx.get_option<T>(name)
GetOption(T, name) ==
    /\ pc = "live"
    /\ naccess < MaxAccess
    /\ naccess' = naccess + 1
    /\ res' = [op |-> "get_option", ty |-> T, name |-> name,
               out |-> get_option(ctx_options_, T, name)]
    /\ UNCHANGED <<pc, commands_, argv, ctx_args, ctx_options_, cerr,
                   prefix_added, cout, executed, calls, thrown, nsetup,
                   setup>>
    /\ UNCHANGED loggerVars

\* ctx.get_option<T>(name, default_value)
GetOptionDefault(T, name, default_value) ==
    LET r == get_option_default(ctx_options_, T, name, default_value,
                                [out |-> cerr, added |-> prefix_added])
    IN  /\ pc = "live"
        /\ naccess < MaxAccess
        /\ naccess' = naccess + 1
        /\ res' = [op |-> "get_option_default", ty |-> T, name |-> name,
                   default_value |-> default_value, out |-> r.out]
        /\ cerr' = r.log.out
        /\ prefix_added' = r.log.added
        /\ UNCHANGED <<pc, commands_, argv, ctx_args, ctx_options_, cout,
                       executed, calls, thrown, nsetup,
                   setup>>
        /\ UNCHANGED loggerVars

\* ctx.has_option(name)
HasOption(name) ==
    /\ pc = "live"
    /\ naccess < MaxAccess
    /\ naccess' = naccess + 1
    /\ res' = [op |-> "has_option", name |-> name,
               out |-> has_option(ctx_options_, name)]
    /\ UNCHANGED <<pc, commands_, argv, ctx_args, ctx_options_, cerr,
                   prefix_added, cout, executed, calls, thrown, nsetup,
                   setup>>
    /\ UNCHANGED loggerVars

\* app.command(name, desc)
AppCommand(name, desc) ==
    /\ pc = "start"
    /\ nsetup < MaxSetup
    /\ nsetup' = nsetup + 1
    /\ commands_' = command(commands_, name, desc)
    /\ UNCHANGED <<pc, argv, ctx_args, ctx_options_, res, cerr, prefix_added,
                   cout, executed, calls, thrown, naccess,
                   setup>>
    /\ UNCHANGED loggerVars

\* .option(name, desc) on the Command registered under cname
CommandOption(cname, name, desc) ==
    /\ pc = "start"
    /\ nsetup < MaxSetup
    /\ cname \in DOMAIN commands_
    /\ nsetup' = nsetup + 1
    /\ commands_' = [commands_ EXCEPT ![cname] = option(@, name, desc)]
    /\ UNCHANGED <<pc, argv, ctx_args, ctx_options_, res, cerr, prefix_added,
                   cout, executed, calls, thrown, naccess,
                   setup>>
    /\ UNCHANGED loggerVars

\* .run(handler) on the Command registered under cname
CommandRun(cname, handler) ==
    /\ pc = "start"
    /\ nsetup < MaxSetup
    /\ cname \in DOMAIN commands_
    /\ nsetup' = nsetup + 1
    /\ commands_' = [commands_ EXCEPT ![cname] = run(@, handler)]
    /\ UNCHANGED <<pc, argv, ctx_args, ctx_options_, res, cerr, prefix_added,
                   cout, executed, calls, thrown, naccess,
                   setup>>
    /\ UNCHANGED loggerVars

\* app.run(argc, argv), to its return or to the exception that leaves it
AppRun(av) ==
    LET o == Dispatch(commands_, parse_args(av)) IN
    /\ pc = "start"
    /\ pc' = "done"
    /\ argv' = av
    /\ cout' = cout \o o.cout
    /\ executed' = executed \o o.executed
    /\ calls' = calls \o o.calls
    /\ thrown' = o.thrown
    /\ UNCHANGED <<commands_, ctx_args, ctx_options_, res, cerr, prefix_added,
                   nsetup, naccess,
                   setup>>
    /\ UNCHANGED loggerVars

NextContext ==
    \/ \E args \in CtxArgLists : NewContext(args)
    \/ \E T \in Types, name \in Names : GetOption(T, name)
    \/ \E T \in Types, name \in Names :
          \E d \in Defaults(T) : GetOptionDefault(T, name, d)
    \/ \E name \in Names : HasOption(name)

\* a host that constructs a Context from an argument list and reads it
SpecContext == Init /\ [][NextContext]_vars

Next ==
    \/ \E name \in CommandNames, desc \in CommandDescs : AppCommand(name, desc)
    \/ \E cname \in CommandNames, name \in OptionNames, desc \in OptionDescs :
          CommandOption(cname, name, desc)
    \/ \E cname \in CommandNames, handler \in Handlers : CommandRun(cname, handler)
    \/ \E av \in Argvs : AppRun(av)

\* a host that registers commands and then runs the App on an argument vector
Spec == Init /\ [][Next]_vars

\* the calls of App::command in the record
CommandCalls == {i \in 1..Len(setup) : setup[i].op = "command"}

\* Command& c = app.command(name, desc), recorded; the reference the call
\* returns is it->second, the element of commands_ under name
RecordCommand(name, desc) ==
    /\ pc = "start"
    /\ nsetup < MaxSetup
    /\ nsetup' = nsetup + 1
    /\ commands_' = command(commands_, name, desc)
    /\ setup' = Append(setup, [op |-> "command", name |-> name, desc |-> desc])
    /\ UNCHANGED <<pc, argv, ctx_args, ctx_options_, res, cerr, prefix_added,
                   cout, executed, calls, thrown, naccess>>
    /\ UNCHANGED loggerVars

\* c.option(name, desc), recorded, c being the reference that the call
\* setup[via] of App::command returned
RecordOption(via, name, desc) ==
    /\ pc = "start"
    /\ nsetup < MaxSetup
    /\ via \in CommandCalls
    /\ nsetup' = nsetup + 1
    /\ commands_' = [commands_ EXCEPT ![setup[via].name] = option(@, name, desc)]
    /\ setup' = Append(setup, [op |-> "option", via |-> via, name |-> name,
                                desc |-> desc])
    /\ UNCHANGED <<pc, argv, ctx_args, ctx_options_, res, cerr, prefix_added,
                   cout, executed, calls, thrown, naccess>>
    /\ UNCHANGED loggerVars

\* c.run(handler), recorded, c being the reference that the call setup[via]
\* of App::command returned
RecordRun(via, handler) ==
    /\ pc = "start"
    /\ nsetup < MaxSetup
    /\ via \in CommandCalls
    /\ nsetup' = nsetup + 1
    /\ commands_' = [commands_ EXCEPT ![setup[via].name] = run(@, handler)]
    /\ setup' = Append(setup, [op |-> "run", via |-> via, handler |-> handler])
    /\ UNCHANGED <<pc, argv, ctx_args, ctx_options_, res, cerr, prefix_added,
                   cout, executed, calls, thrown, naccess>>
    /\ UNCHANGED loggerVars

NextSetup ==
    \/ \E name \in SetupNames, desc \in CommandDescs : RecordCommand(name, desc)
    \/ \E via \in 1..MaxSetup, name \in OptionNames, desc \in OptionDescs :
          RecordOption(via, name, desc)
    \/ \E via \in 1..MaxSetup, handler \in Handlers : RecordRun(via, handler)
    \/ \E av \in SetupArgvs : AppRun(av)

\* a host whose registration calls are recorded, and which then runs the App
SpecSetup == Init /\ [][NextSetup]_vars

\* thread t calls Logger::get()
GetCall(t) ==
    /\ tpc[t] = "idle"
    /\ ngets[t] < MaxGets
    /\ tpc' = [tpc EXCEPT ![t] = "lock"]
    /\ UNCHANGED <<mtx, logger, ncreated, ngets, returned>>
    /\ UNCHANGED appVars

GetLockMut(t) ==
    /\ tpc[t] = "lock"
    /\ mtx' = t
    /\ tpc' = [tpc EXCEPT ![t] = "test"]
    /\ UNCHANGED <<logger, ncreated, ngets, returned>>
    /\ UNCHANGED appVars

\* std::lock_guard<std::mutex> lock(mtx): returns once t holds the mutex
GetLock(t) ==
    /\ tpc[t] = "lock"
    /\ mtx = Unlocked
    /\ mtx' = t
    /\ tpc' = [tpc EXCEPT ![t] = "test"]
    /\ UNCHANGED <<logger, ncreated, ngets, returned>>
    /\ UNCHANGED appVars

\* if (!instance())
GetTest(t) ==
    /\ tpc[t] = "test"
    /\ tpc' = [tpc EXCEPT ![t] = IF logger = NoLogger THEN "create" ELSE "return"]
    /\ UNCHANGED <<mtx, logger, ncreated, ngets, returned>>
    /\ UNCHANGED appVars

\* instance() = create_default(): a new ConsoleLogger
GetCreate(t) ==
    /\ tpc[t] = "create"
    /\ ncreated' = ncreated + 1
    /\ logger' = ncreated + 1
    /\ tpc' = [tpc EXCEPT ![t] = "return"]
    /\ UNCHANGED <<mtx, ngets, returned>>
    /\ UNCHANGED appVars

\* return *instance(): the reference is taken while the lock is held
GetReturn(t) ==
    /\ tpc[t] = "return"
    /\ returned' = returned \cup {logger}
    /\ tpc' = [tpc EXCEPT ![t] = "unlock"]
    /\ UNCHANGED <<mtx, logger, ncreated, ngets>>
    /\ UNCHANGED appVars

\* the destructor of lock, as get() is left
GetUnlock(t) ==
    /\ tpc[t] = "unlock"
    /\ mtx' = Unlocked
    /\ ngets' = [ngets EXCEPT ![t] = @ + 1]
    /\ tpc' = [tpc EXCEPT ![t] = "idle"]
    /\ UNCHANGED <<logger, ncreated, returned>>
    /\ UNCHANGED appVars

NextLogger ==
    \/ \E t \in Threads : GetCall(t)
    \/ \E t \in Threads : GetLock(t)
    \/ \E t \in Threads : GetTest(t)
    \/ \E t \in Threads : GetCreate(t)
    \/ \E t \in Threads : GetReturn(t)
    \/ \E t \in Threads : GetUnlock(t)

\* threads that call Logger::get() concurrently, no logger having been set
SpecLogger == Init /\ [][NextLogger]_vars

---------------------------------------------------------------------------
(* The argument binder, stated without a cursor.                           *)

StartsWithDashes(t) == Len(t) >= 2 /\ t[1] = "-" /\ t[2] = "-"
MarkersOf(args) == {p \in 1..Len(args) : StartsWithDashes(args[p])}
NameAt(args, p) == SubSeq(args[p], 3, Len(args[p]))
BoundAt(args, p) ==
    IF p < Len(args) /\ ~StartsWithDashes(args[p + 1]) THEN args[p + 1]
    ELSE <<"t", "r", "u", "e">>
FirstMarkerOf(args, k) ==
    CHOOSE p \in MarkersOf(args) :
        /\ NameAt(args, p) = k
        /\ \A q \in MarkersOf(args) : NameAt(args, q) = k => p <= q

\* A marker is never taken as a value, so the scan visits every marker; each
\* name is bound by its first marker.
ScanStore(args) ==
    [k \in {NameAt(args, p) : p \in MarkersOf(args)} |->
        BoundAt(args, FirstMarkerOf(args, k))]

\* C1: the store the constructor builds is the store of the left-to-right
\* scan: a token is a marker iff it starts with "--"; a marker binds its name
\* to the next token when there is one and it is no marker, else to "true";
\* every other token is ignored.  ["--a", "--b", "1"] gives a = "true", b = "1".
C1_StoreIsScan ==
    pc = "live" =>
        /\ ctx_options_ = ScanStore(ctx_args)
        /\ ctx_args = <<mA, mB, sOne>> =>
               ctx_options_ = (sA :> <<"t", "r", "u", "e">> @@ sB :> <<"1">>)

C1_Witness ==
    /\ pc = "live"
    /\ ctx_args = <<mA, mB, sOne>>
    /\ DOMAIN ctx_options_ = {sA, sB}

---------------------------------------------------------------------------
(* The typed accessor.                                                     *)

\* C2: for a name absent from the store, get_option<bool>(name) returns false
\* and get_option<int | float | string>(name) fails with MissingRequiredOption.
C2_AbsentNonDefaulted ==
    (res.op = "get_option" /\ res.name \notin DOMAIN ctx_options_) =>
        /\ res.ty = "bool" =>
               res.out = [tag |-> "return", ty |-> "bool", val |-> FALSE]
        /\ res.ty \in {"int", "float", "string"} =>
               /\ res.out.tag = "throw"
               /\ res.out.exc = "MissingRequiredOption"

C2_Witness ==
    /\ res.op = "get_option"
    /\ res.name \notin DOMAIN ctx_options_
    /\ res.ty = "bool"
    /\ res.out.tag = "return"
    /\ \E a \in CtxArgLists : a # <<>> /\ ctx_args = a

TruthyWords == {<<"t", "r", "u", "e">>, <<"1">>, <<"o", "n">>, <<"y", "e", "s">>}
FalsyWords ==
    {<<"f", "a", "l", "s", "e">>, <<"0">>, <<"o", "f", "f">>, <<"n", "o">>}

\* C3: for a present option, get_option<bool> returns true iff the raw value
\* is one of "true", "1", "on", "yes", false iff it is one of "false", "0",
\* "off", "no", and fails with BadOptionType for every other raw value.
C3_BoolCoercion ==
    (res.op = "get_option" /\ res.ty = "bool" /\ res.name \in DOMAIN ctx_options_) =>
        LET v == ctx_options_[res.name] IN
        /\ v \in TruthyWords <=>
               res.out = [tag |-> "return", ty |-> "bool", val |-> TRUE]
        /\ v \in FalsyWords <=>
               res.out = [tag |-> "return", ty |-> "bool", val |-> FALSE]
        /\ v \notin TruthyWords \cup FalsyWords =>
               /\ res.out.tag = "throw"
               /\ res.out.exc = "BadOptionType"

C3_Witness ==
    /\ res.op = "get_option"
    /\ res.ty = "bool"
    /\ res.name \in DOMAIN ctx_options_
    /\ ctx_options_[res.name] = <<"T", "r", "u", "e">>
    /\ res.out.tag = "throw"

IsSpace(c) == c \in {" ", "\t", "\n", "\f", "\r"}
IsDigit(c) == c \in {"0", "1", "2", "3", "4", "5", "6", "7", "8", "9"}

\* the string without its leading white space
AfterSpaces(v) ==
    LET n == CHOOSE k \in 0..Len(v) :
                 /\ \A i \in 1..k : IsSpace(v[i])
                 /\ k = Len(v) \/ ~IsSpace(v[k + 1])
    IN  SubSeq(v, n + 1, Len(v))

HasSign(b) == b # <<>> /\ b[1] \in {"+", "-"}
DigitsOf(b) == IF HasSign(b) THEN Tail(b) ELSE b

\* an optional sign and then one digit or more, and nothing else
IsSignedDecimal(b) ==
    /\ DigitsOf(b) # <<>>
    /\ \A i \in 1..Len(DigitsOf(b)) : IsDigit(DigitsOf(b)[i])

DigitChar(d) ==
    CASE d = 0 -> "0" [] d = 1 -> "1" [] d = 2 -> "2" [] d = 3 -> "3"
      [] d = 4 -> "4" [] d = 5 -> "5" [] d = 6 -> "6" [] d = 7 -> "7"
      [] d = 8 -> "8" [] d = 9 -> "9"

RECURSIVE DecimalOfNeg(_)
\* the decimal digits of -m, for m <= 0 (none for 0)
DecimalOfNeg(m) ==
    IF m = 0 THEN <<>>
    ELSE LET d == (10 - (m % 10)) % 10 IN
         Append(DecimalOfNeg((m + d) \div 10), DigitChar(d))

RECURSIVE WithoutLeadingZeros(_)
WithoutLeadingZeros(ds) ==
    IF ds # <<>> /\ ds[1] = "0" THEN WithoutLeadingZeros(Tail(ds)) ELSE ds

\* the signed decimal b denotes the int n
Denotes(b, n) ==
    /\ WithoutLeadingZeros(DigitsOf(b)) = DecimalOfNeg(IF n > 0 THEN -n ELSE n)
    /\ n < 0 => b[1] = "-"
    /\ n > 0 => b[1] # "-"

IntAccessOf(r, opts) ==
    r.op = "get_option" /\ r.ty = "int" /\ r.name \in DOMAIN opts

\* C4 as claimed: get_option<int> returns n only when the entire raw string is
\* a base-10 signed integer denoting n; a raw value the parse does not wholly
\* consume fails with BadOptionType; "12" returns 12.
C4_Original ==
    IntAccessOf(res, ctx_options_) =>
        LET v == ctx_options_[res.name] IN
        /\ res.out.tag = "return" =>
               IsSignedDecimal(v) /\ Denotes(v, res.out.val)
        /\ ~IsSignedDecimal(AfterSpaces(v)) =>
               res.out.tag = "throw" /\ res.out.exc = "BadOptionType"
        /\ v = <<"1", "2">> => res.out = [tag |-> "return", ty |-> "int", val |-> 12]

\* C4, amended: get_option<int> returns n only when the raw string is, after
\* leading white space, wholly a base-10 signed integer denoting n; every
\* other raw value ("12abc", "12 ", "", "abc") fails with BadOptionType; "12"
\* returns 12.
C4_IntCoercion ==
    IntAccessOf(res, ctx_options_) =>
        LET v == ctx_options_[res.name] IN
        /\ res.out.tag = "return" =>
               /\ IsSignedDecimal(AfterSpaces(v))
               /\ Denotes(AfterSpaces(v), res.out.val)
        /\ ~IsSignedDecimal(AfterSpaces(v)) =>
               res.out.tag = "throw" /\ res.out.exc = "BadOptionType"
        /\ res.out.tag = "throw" => res.out.exc = "BadOptionType"
        /\ v = <<"1", "2">> => res.out = [tag |-> "return", ty |-> "int", val |-> 12]
        /\ v = <<"1", "2", "a", "b", "c">> => res.out.tag = "throw"

C4_Witness ==
    /\ IntAccessOf(res, ctx_options_)
    /\ ctx_options_[res.name] = <<" ", "1", "2">>
    /\ res.out = [tag |-> "return", ty |-> "int", val |-> 12]

\* a step that is the defaulted accessor returning
DefaultedStep == naccess' = naccess + 1 /\ res'.op = "get_option_default"

\* what the step has written to std::cerr
Written == SubSeq(cerr', Len(cerr) + 1, Len(cerr'))

\* C5 as claimed: for every requested type and every absent name,
\* get_option(name, default) returns the default and emits no warning.
C5_AbsentDefaulted ==
    [][(DefaultedStep /\ res'.name \notin DOMAIN ctx_options_) =>
           /\ res'.out = [tag |-> "return", ty |-> res'.ty,
                          val |-> res'.default_value]
           /\ cerr' = cerr]_vars

\* whether the non-defaulted accessor fails to coerce the raw value of name
Malformed(opts, T, name) ==
    /\ name \in DOMAIN opts
    /\ get_option(opts, T, name).tag = "throw"

\* C6: for a present option whose raw value cannot be coerced to the requested
\* type, get_option(name, default) returns the default, writes exactly one
\* warning (the BadOptionType message, ended by std::endl) and fails not.
C6_MalformedDefaulted ==
    [][(DefaultedStep /\ Malformed(ctx_options_, res'.ty, res'.name)) =>
           /\ res'.out = [tag |-> "return", ty |-> res'.ty,
                          val |-> res'.default_value]
           /\ SubSeq(cerr', 1, Len(cerr)) = cerr
           /\ Cardinality({i \in 1..Len(Written) : Written[i].w = "what"}) = 1
           /\ Cardinality({i \in 1..Len(Written) : Written[i].w = "endl"}) = 1
           /\ Written[Len(Written)].w = "endl"
           /\ \E i \in 1..Len(Written) :
                  Written[i] = [w |-> "what", exc |-> "BadOptionType",
                                name |-> res'.name, expected |-> res'.ty]]_vars

C6_Witness ==
    /\ res.op = "get_option_default"
    /\ res.ty = "int"
    /\ Malformed(ctx_options_, res.ty, res.name)
    /\ res.out = [tag |-> "return", ty |-> "int", val |-> 7]
    /\ Len(cerr) > 3

---------------------------------------------------------------------------
(* App::run and Command::execute.                                          *)

\* argv without the program's name
ArgsOf(av) == IF av = <<>> THEN <<>> ELSE Tail(av)

TopLevelHelp == <<[w |-> "help"]>>
VersionLine == <<[w |-> "version", text |-> <<"1", ".", "0">>]>>

\* C7: App::run with no argument after argv[0], or with "help" first, writes
\* the top-level help and returns: no exception, no handler invoked, whatever
\* commands are registered (none included).
C7_HelpPath ==
    (pc = "done" /\ (ArgsOf(argv) = <<>> \/ ArgsOf(argv)[1] = <<"h", "e", "l", "p">>)) =>
        /\ cout = TopLevelHelp
        /\ thrown = [tag |-> "none"]
        /\ calls = <<>>
        /\ executed = <<>>

C7_Witness ==
    /\ pc = "done"
    /\ argv = <<sProg>>
    /\ commands_ = EmptyMap
    /\ cout = TopLevelHelp

ReservedWords == {<<"h", "e", "l", "p">>, <<"v", "e", "r", "s", "i", "o", "n">>}

\* the run had a reserved word first, and a command with a handler is
\* registered under that word
ShadowedRun ==
    /\ pc = "done"
    /\ ArgsOf(argv) # <<>>
    /\ ArgsOf(argv)[1] \in ReservedWords
    /\ ArgsOf(argv)[1] \in DOMAIN commands_
    /\ commands_[ArgsOf(argv)[1]].handler_ # 0

\* C8: when a command named "help" or "version" is registered with a handler,
\* App::run with that word first takes the built-in path and invokes no
\* handler, whatever the remaining arguments are.
C8_ReservedWordsShadow ==
    ShadowedRun =>
        /\ calls = <<>>
        /\ executed = <<>>
        /\ thrown = [tag |-> "none"]
        /\ cout = IF ArgsOf(argv)[1] = <<"h", "e", "l", "p">>
                  THEN TopLevelHelp ELSE VersionLine

C8_Witness ==
    /\ ShadowedRun
    /\ argv = <<sProg, sVersion, mA, sZero>>

\* the run had a first argument that is no reserved word
CommandRunOf(av) ==
    /\ pc = "done"
    /\ ArgsOf(av) # <<>>
    /\ ArgsOf(av)[1] \notin ReservedWords

\* C9: when args[0] is neither "help" nor "version": if no command is
\* registered under it, App::run fails with CommandNotFound and invokes no
\* handler; if one is, that command's execute is called once, with the Context
\* bound from args[1:], and no other command's handler is invoked.
C9_CommandDispatch ==
    CommandRunOf(argv) =>
        LET name == ArgsOf(argv)[1] IN
        IF name \notin DOMAIN commands_
        THEN /\ thrown = [tag |-> "throw", exc |-> "CommandNotFound", name |-> name]
             /\ executed = <<>>
             /\ calls = <<>>
        ELSE /\ executed = <<[command |-> name,
                              context |-> ScanStore(Tail(ArgsOf(argv)))]>>
             /\ \A i \in 1..Len(calls) : calls[i].command = name
             /\ thrown.tag = "throw" => thrown.exc # "CommandNotFound"

C9_Witness ==
    /\ CommandRunOf(argv)
    /\ argv = <<sProg, sSum, mA, sZero>>
    /\ calls = <<[handler |-> 1, command |-> sSum, context |-> (sA :> sZero)]>>
    /\ sHelp \in DOMAIN commands_
    /\ commands_[sHelp].handler_ = 2

\* the text Command::get_help builds for the command c
HelpTextOf(c) ==
    [w |-> "command_help", name |-> c.name_, desc |-> c.desc_,
     options |-> [n \in DOMAIN c.options_ |-> c.options_[n].option_desc_]]

\* C10: Command::execute checks in this order: with the option "help" in the
\* context the help text is written and the handler is not invoked; otherwise,
\* with no handler set, it fails with CommandHasNotHandler; otherwise the
\* handler is invoked exactly once, with the given context.
C10_ExecuteOrder ==
    (pc = "done" /\ executed # <<>>) =>
        LET c == commands_[executed[1].command]
            context == executed[1].context
        IN  IF <<"h", "e", "l", "p">> \in DOMAIN context
            THEN /\ cout = <<HelpTextOf(c), [w |-> "endl"]>>
                 /\ calls = <<>>
                 /\ thrown = [tag |-> "none"]
            ELSE IF c.handler_ = 0
            THEN /\ thrown = [tag |-> "throw", exc |-> "CommandHasNotHandler",
                              name |-> c.name_]
                 /\ calls = <<>>
                 /\ cout = <<>>
            ELSE /\ calls = <<[handler |-> c.handler_, command |-> c.name_,
                               context |-> context]>>
                 /\ thrown = [tag |-> "none"]
                 /\ cout = <<>>

C10_Witness ==
    /\ pc = "done"
    /\ executed # <<>>
    /\ sHelp \in DOMAIN executed[1].context
    /\ commands_[executed[1].command].handler_ = 0
    /\ thrown = [tag |-> "none"]

---------------------------------------------------------------------------
(* Registration: App::command, Command::option, Command::run.              *)

\* the recorded calls of App::command
Registrations == {i \in 1..Len(setup) : setup[i].op = "command"}

\* the recorded calls of kind op made through a reference that a call
\* app.command(n, ...) returned
CallsThrough(op, n) ==
    {j \in 1..Len(setup) : setup[j].op = op /\ setup[setup[j].via].name = n}

LastOf(S) == CHOOSE i \in S : \A j \in S : j <= i

AB_Record ==
    <<[op |-> "command", name |-> sSum, desc |-> sD1],
      [op |-> "option", via |-> 1, name |-> sA, desc |-> sD1],
      [op |-> "command", name |-> sSum, desc |-> sD1],
      [op |-> "option", via |-> 3, name |-> sB, desc |-> sD1]>>

\* C11: App::command is get-or-create: after any sequence of calls the
\* registry holds one Command for each distinct name requested and no other;
\* whichever of the returned references an option or a handler was attached
\* through, the one Command registered under that name holds every such
\* option, and holds a handler iff one was attached.  Option "a" through the
\* first call of command("sum") and option "b" through the second are both
\* present afterwards.
C11_GetOrCreate ==
    /\ DOMAIN commands_ = {setup[i].name : i \in Registrations}
    /\ \A n \in DOMAIN commands_ :
           /\ commands_[n].name_ = n
           /\ DOMAIN commands_[n].options_ =
                  {setup[j].name : j \in CallsThrough("option", n)}
           /\ commands_[n].handler_ # 0 <=> CallsThrough("run", n) # {}
    /\ setup = AB_Record => DOMAIN commands_[sSum].options_ = {sA, sB}

C11_Witness ==
    /\ setup = AB_Record
    /\ DOMAIN commands_ = {sSum}
    /\ DOMAIN commands_[sSum].options_ = {sA, sB}

\* C12 as claimed: Command::option registers or overwrites: the description
\* stored under an option name is the one given by the last option() call for
\* that name on that command.
C12_OptionOverwrites ==
    \A n \in DOMAIN commands_ :
        \A o \in DOMAIN commands_[n].options_ :
            commands_[n].options_[o].option_desc_ =
                setup[LastOf({j \in CallsThrough("option", n) : setup[j].name = o})].desc

\* C15: Command::run is last-write-wins: at every point of a registration
\* sequence the handler of a command is the one given by the last run() call
\* made on it (option() calls in between change nothing), and an execute whose
\* context has no "help" option invokes that handler once and no other.
C15_LastRunWins ==
    /\ \A n \in DOMAIN commands_ :
           CallsThrough("run", n) # {} =>
               commands_[n].handler_ = setup[LastOf(CallsThrough("run", n))].handler
    /\ (/\ pc = "done"
        /\ executed # <<>>
        /\ <<"h", "e", "l", "p">> \notin DOMAIN executed[1].context
        /\ CallsThrough("run", executed[1].command) # {}) =>
           calls = <<[handler |->
                          setup[LastOf(CallsThrough("run", executed[1].command))].handler,
                      command |-> executed[1].command,
                      context |-> executed[1].context]>>

C15_Witness ==
    /\ pc = "done"
    /\ setup = <<[op |-> "command", name |-> sSum, desc |-> sD1],
                 [op |-> "run", via |-> 1, handler |-> 1],
                 [op |-> "option", via |-> 1, name |-> sA, desc |-> sD1],
                 [op |-> "run", via |-> 1, handler |-> 2]>>
    /\ calls = <<[handler |-> 2, command |-> sSum, context |-> EmptyMap]>>

---------------------------------------------------------------------------
(* Repeated markers, the frame of the accessors, has_option, the int range. *)

\* the markers whose name an earlier marker of the list already has
LaterOccurrences(args) ==
    {q \in MarkersOf(args) :
        \E p \in MarkersOf(args) : p < q /\ NameAt(args, p) = NameAt(args, q)}

\* how many tokens the marker at q takes: itself, and its value if it has one
TakenAt(args, q) ==
    IF q < Len(args) /\ ~StartsWithDashes(args[q + 1]) THEN 2 ELSE 1

\* C13: when a name occurs as a marker more than once, the store holds the
\* value bound by the first occurrence; at a later occurrence the scan goes on
\* with the store it had, past the marker and the value token the marker takes.
C13_FirstOccurrenceWins ==
    pc = "live" =>
        \A q \in LaterOccurrences(ctx_args) :
            LET k == NameAt(ctx_args, q) IN
            /\ ctx_options_[k] = BoundAt(ctx_args, FirstMarkerOf(ctx_args, k))
            /\ ctx_options_ =
                   ContextLoop(ctx_args, q - 1 + TakenAt(ctx_args, q),
                               ScanStore(SubSeq(ctx_args, 1, q - 1)))

C13_Witness ==
    /\ pc = "live"
    /\ ctx_args = <<mA, sOne, mA>>
    /\ ctx_options_ = (sA :> <<"1">>)

\* a step that repeats the access res records
RepeatsAccess ==
    /\ res.op # "none"
    /\ naccess' = naccess + 1
    /\ res'.op = res.op
    /\ res'.name = res.name
    /\ res.op # "has_option" => res'.ty = res.ty
    /\ res.op = "get_option_default" => res'.default_value = res.default_value

\* C16: once the Context is constructed, no call of get_option, of the
\* defaulted get_option or of has_option, failing ones included, changes the
\* store, and an access that repeats the one before it gives the same result
\* or the same failure.
C16_StoreImmutable ==
    [][pc = "live" =>
           /\ ctx_options_' = ctx_options_
           /\ RepeatsAccess => res'.out = res.out]_vars

C16_Witness ==
    /\ pc = "live"
    /\ naccess = 2
    /\ res.op = "get_option"
    /\ res.out.tag = "throw"
    /\ res.name \notin DOMAIN ctx_options_
    /\ ctx_options_ = ScanStore(ctx_args)
    /\ ctx_options_ # EmptyMap

\* C17: has_option(n) returns a boolean, true iff some token of the argument
\* list is "--" followed by n; every marker token has its name in the store.
C17_HasOptionIffMarker ==
    /\ pc = "live" =>
           DOMAIN ctx_options_ = {NameAt(ctx_args, p) : p \in MarkersOf(ctx_args)}
    /\ res.op = "has_option" =>
           /\ res.out \in BOOLEAN
           /\ res.out <=>
                  \E p \in 1..Len(ctx_args) : ctx_args[p] = <<"-", "-">> \o res.name

C17_Witness ==
    /\ res.op = "has_option"
    /\ res.name = <<>>
    /\ res.out = TRUE
    /\ ctx_args = <<mA, DashDash, mB>>

DigitOf(c) == CHOOSE d \in 0..9 : DigitChar(d) = c

\* the digit strings m and t have the same length and m is the greater number
GreaterDigits(m, t) ==
    \E i \in 1..Len(m) :
        /\ DigitOf(m[i]) > DigitOf(t[i])
        /\ \A j \in 1..(i - 1) : m[j] = t[j]

\* the signed decimal b denotes a number outside [-2^31, 2^31 - 1]
OutOfIntRange(b) ==
    LET m == WithoutLeadingZeros(DigitsOf(b))
        t == IF b[1] = "-"
             THEN <<"2", "1", "4", "7", "4", "8", "3", "6", "4", "8">>
             ELSE <<"2", "1", "4", "7", "4", "8", "3", "6", "4", "7">>
    IN  Len(m) > 10 \/ (Len(m) = 10 /\ GreaterDigits(m, t))

\* C19: get_option<int> on a well-formed base-10 integer outside
\* [-2^31, 2^31 - 1] fails with BadOptionType; a value it returns lies in that
\* range and is the number written; no failure of the int coercion is of
\* another kind than BadOptionType.
C19_IntRange ==
    IntAccessOf(res, ctx_options_) =>
        LET b == AfterSpaces(ctx_options_[res.name]) IN
        /\ (IsSignedDecimal(b) /\ OutOfIntRange(b)) =>
               res.out = [tag |-> "throw", exc |-> "BadOptionType",
                          name |-> res.name, expected |-> "int"]
        /\ res.out.tag = "return" =>
               /\ res.out.val \in (-2147483647 - 1)..2147483647
               /\ Denotes(b, res.out.val)
        /\ res.out.tag = "throw" => res.out.exc = "BadOptionType"

C19_Witness ==
    /\ IntAccessOf(res, ctx_options_)
    /\ ctx_options_[res.name] = <<"-", "2", "1", "4", "7", "4", "8", "3", "6", "4", "9">>
    /\ res.out.tag = "throw"
    /\ res.out.exc = "BadOptionType"

---------------------------------------------------------------------------
(* A command without handler, and the dispatch selector.                   *)

\* the run executed a command that has no handler
UnconfiguredExecuted ==
    /\ pc = "done"
    /\ executed # <<>>
    /\ commands_[executed[1].command].handler_ = 0

\* C14 as claimed: a Command with no handler fails on every execute call, for
\* every context.
C14_Original == UnconfiguredExecuted => thrown.tag = "throw"

\* C14, amended: a Command with no handler fails with CommandHasNotHandler on
\* every execute call whose context has no "help" option; on a context that
\* has it, execute writes the help text and returns; no handler is invoked in
\* either case.
C14_UnconfiguredFails ==
    UnconfiguredExecuted =>
        /\ calls = <<>>
        /\ IF <<"h", "e", "l", "p">> \in DOMAIN executed[1].context
           THEN thrown = [tag |-> "none"]
           ELSE /\ thrown = [tag |-> "throw", exc |-> "CommandHasNotHandler",
                             name |-> executed[1].command]
                /\ cout = <<>>

C14_Witness ==
    /\ UnconfiguredExecuted
    /\ executed[1].context = (sA :> sZero)
    /\ thrown.tag = "throw"
    /\ thrown.exc = "CommandHasNotHandler"

\* the first token of args that is no option marker
NonFlags(args) == {p \in 1..Len(args) : ~StartsWithDashes(args[p])}
FirstNonFlag(args) ==
    args[CHOOSE p \in NonFlags(args) : \A q \in NonFlags(args) : p <= q]

\* C20 as claimed: App::run chooses help, version or a registered command by
\* the first non-flag token of the argument list; option markers before it are
\* not taken as the selector.
C20_Original ==
    (pc = "done" /\ NonFlags(ArgsOf(argv)) # {}) =>
        LET s == FirstNonFlag(ArgsOf(argv)) IN
        /\ s = <<"h", "e", "l", "p">> => cout = TopLevelHelp
        /\ s = <<"v", "e", "r", "s", "i", "o", "n">> => cout = VersionLine
        /\ (s \notin ReservedWords /\ s \in DOMAIN commands_) =>
               executed # <<>> /\ executed[1].command = s
        /\ (s \notin ReservedWords /\ s \notin DOMAIN commands_) =>
               thrown = [tag |-> "throw", exc |-> "CommandNotFound", name |-> s]

\* C20, amended: the selector is the first token of the argument list, option
\* marker or not: "help" and "version" first take the built-in paths, the
\* command executed is the one registered under the first token, and a marker
\* that comes first and names no registered command fails with CommandNotFound
\* naming the marker, whatever follows it.
C20_SelectorIsFirstToken ==
    (pc = "done" /\ ArgsOf(argv) # <<>>) =>
        LET s == ArgsOf(argv)[1] IN
        /\ s = <<"h", "e", "l", "p">> => cout = TopLevelHelp
        /\ s = <<"v", "e", "r", "s", "i", "o", "n">> => cout = VersionLine
        /\ executed # <<>> => executed[1].command = s
        /\ (s \notin ReservedWords /\ s \in DOMAIN commands_) => executed # <<>>
        /\ (StartsWithDashes(s) /\ s \notin DOMAIN commands_) =>
               /\ thrown = [tag |-> "throw", exc |-> "CommandNotFound", name |-> s]
               /\ executed = <<>>
               /\ calls = <<>>
               /\ cout = <<>>

C20_Witness ==
    /\ pc = "done"
    /\ argv = <<sProg, mHelp, sSum>>
    /\ sSum \in DOMAIN commands_
    /\ commands_[sSum].handler_ = 1
    /\ thrown = [tag |-> "throw", exc |-> "CommandNotFound", name |-> mHelp]
    /\ calls = <<>>

---------------------------------------------------------------------------
(* The per-command help bypass.                                            *)

\* the run reached a registered command and "--help" is among its arguments
HelpMarkerRun ==
    /\ CommandRunOf(argv)
    /\ ArgsOf(argv)[1] \in DOMAIN commands_
    /\ \E p \in 2..Len(ArgsOf(argv)) :
           ArgsOf(argv)[p] = <<"-", "-", "h", "e", "l", "p">>

\* C21: a "--help" marker among the command's arguments bypasses the handler
\* whatever value is bound to it ("--help false" and "--help 0" included): the
\* help text is written, no handler is invoked, and no CommandHasNotHandler is
\* raised even when the command has no handler.
C21_HelpMarkerBypass ==
    HelpMarkerRun =>
        /\ calls = <<>>
        /\ thrown = [tag |-> "none"]
        /\ cout = <<HelpTextOf(commands_[ArgsOf(argv)[1]]), [w |-> "endl"]>>

C21_Witness ==
    /\ HelpMarkerRun
    /\ argv = <<sProg, sSum, mHelp, sFalse>>
    /\ executed[1].context = (sHelp :> <<"f", "a", "l", "s", "e">>)
    /\ commands_[sSum].handler_ = 0
    /\ calls = <<>>
    /\ thrown = [tag |-> "none"]

---------------------------------------------------------------------------
(* The warning stream.                                                     *)

\* C23 as claimed: every message written to Clixxi::warning, each ended by
\* std::endl, is preceded by the level prefix: the first one and every one
\* that follows an earlier message.
C23_PrefixPerMessage ==
    /\ cerr # <<>> => cerr[1] = [w |-> "warning_prefix"]
    /\ \A i \in 1..(Len(cerr) - 1) :
           cerr[i] = [w |-> "endl"] => cerr[i + 1] = [w |-> "warning_prefix"]

---------------------------------------------------------------------------
(* Logger::get.                                                            *)

\* C22: under every interleaving of concurrent calls of Logger::get() made
\* when no logger has been set, at most one default logger is created, and
\* every call returns that one instance (never an empty pointer's target).
C22_GetThreadSafe ==
    /\ ncreated <= 1
    /\ Cardinality(returned) <= 1
    /\ returned # {} => returned = {logger} /\ logger # 0

C22_Witness ==
    /\ returned = {1}
    /\ \E t \in Threads, u \in Threads :
           /\ t # u
           /\ ngets[t] >= 1
           /\ ngets[u] >= 1
           /\ tpc[t] = "lock"
           /\ tpc[u] = "test"

=============================================================================
